---------------------------- MODULE Spec2Model ----------------------------
(***************************************************************************)
(* A model of c-robinson/iplib: the hostmask-aware IPv6 address            *)
(* arithmetic of hostmask.go and the range fitting of net.go.              *)
(*                                                                         *)
(* Addresses, masks and 128-bit counters are sequences of bytes, most      *)
(* significant byte first, exactly as the Go code holds them (net.IP,      *)
(* HostMask, and uint128.Uint128 through FromBytesBE / PutBytesBE).  A Go  *)
(* index i is element i + 1 of the sequence.                               *)
(***************************************************************************)
EXTENDS Integers, Sequences, FiniteSets, TLC

\* ------------------------------------------------------------------------
\* Program constants
\* ------------------------------------------------------------------------

\* len of an IPv6 address / of make([]byte, 16) in NewHostMask
IPv6len == 16

\* len of an IPv4 address (make([]byte, 4) in NextIP)
IPv4len == 4

\* number of values of a Go byte; byte arithmetic wraps modulo it
ByteMod == 256

\* ------------------------------------------------------------------------
\* Bounds of the model
\* ------------------------------------------------------------------------

\* how many calls a caller chains on one buffer (the result of a successful
\* Next/Previous call is passed to the following call)
MaxCalls == 2

\* the range endpoints are drawn from anchor addresses plus 0..MaxOffset
MaxOffset == 4

\* Count and Enumerate are called on blocks of at most this many host bits
MaxHostBits == 3

\* Subnet and Supernet are called with mask lengths at most this far from
\* the block's own
MaxSplit == 2

\* blocks are derived one from the other at most this many times
MaxDerive == 2

\* a count handed to decrementBoundaryByte turns the byte round at most
\* this many times
MaxTurns == 3

\* ------------------------------------------------------------------------
\* Bytes and byte slices
\* ------------------------------------------------------------------------

At(s, i) == s[i + 1]

\* Go's s[lo:hi]
Slice(s, lo, hi) == [j \in 1..(hi - lo) |-> s[lo + j]]

\* s[i] = v
SetByte(s, i, v) == [j \in 1..Len(s) |-> IF j = i + 1 THEN v ELSE s[j]]

\* make([]byte, n)
Zeros(n) == [i \in 1..n |-> 0]

Filled(n, v) == [i \in 1..n |-> v]

RECURSIVE BitAnd(_, _, _)
BitAnd(x, y, n) ==
    IF n = 0 THEN 0
    ELSE (IF x % 2 = 1 /\ y % 2 = 1 THEN 1 ELSE 0)
         + 2 * BitAnd(x \div 2, y \div 2, n - 1)

RECURSIVE BitOr(_, _, _)
BitOr(x, y, n) ==
    IF n = 0 THEN 0
    ELSE (IF x % 2 = 1 \/ y % 2 = 1 THEN 1 ELSE 0)
         + 2 * BitOr(x \div 2, y \div 2, n - 1)

ByteAnd(x, y) == BitAnd(x, y, 8)

ByteOr(x, y) == BitOr(x, y, 8)

RECURSIVE Pow2(_)
Pow2(n) == IF n = 0 THEN 1 ELSE 2 * Pow2(n - 1)

\* bytes.Compare: -1, 0 or 1, byte-wise from the front, shorter prefix first
RECURSIVE BytesCompareFrom(_, _, _)
BytesCompareFrom(a, b, i) ==
    IF i > Len(a) /\ i > Len(b) THEN 0
    ELSE IF i > Len(a) THEN -1
    ELSE IF i > Len(b) THEN 1
    ELSE IF a[i] < b[i] THEN -1
    ELSE IF a[i] > b[i] THEN 1
    ELSE BytesCompareFrom(a, b, i + 1)

BytesCompare(a, b) == BytesCompareFrom(a, b, 1)

\* ------------------------------------------------------------------------
\* lukechampine.com/uint128: a Uint128 is held as its 16 big-endian bytes.
\* Add, Add64 and Sub panic on overflow / underflow (v1.3.0).
\* ------------------------------------------------------------------------

\* the n-byte big-endian encoding of a natural number v < 2^31
RECURSIVE BytesOfNat(_, _)
BytesOfNat(v, n) ==
    IF n = 0 THEN <<>> ELSE Append(BytesOfNat(v \div ByteMod, n - 1), v % ByteMod)

U128From64(v) == BytesOfNat(v, 16)

U128Zero == Zeros(16)

U128IsZero(u) == \A i \in 1..Len(u) : u[i] = 0

U128Cmp(u, v) == BytesCompare(u, v)

\* carry out of digit i when adding the digits i..Len of a and b
RECURSIVE AddCarry(_, _, _)
AddCarry(a, b, i) ==
    IF i > Len(a) THEN 0 ELSE (a[i] + b[i] + AddCarry(a, b, i + 1)) \div ByteMod

AddDigits(a, b) ==
    [i \in 1..Len(a) |-> (a[i] + b[i] + AddCarry(a, b, i + 1)) % ByteMod]

\* u + v; ovf is the panic("overflow") of Add
U128Add(u, v) == [v |-> AddDigits(u, v), ovf |-> AddCarry(u, v, 1) # 0]

\* borrow out of digit i when subtracting the digits i..Len of b from a
RECURSIVE SubBorrow(_, _, _)
SubBorrow(a, b, i) ==
    IF i > Len(a) THEN 0
    ELSE IF a[i] - b[i] - SubBorrow(a, b, i + 1) < 0 THEN 1 ELSE 0

SubDigits(a, b) ==
    [i \in 1..Len(a) |-> (a[i] - b[i] - SubBorrow(a, b, i + 1) + ByteMod) % ByteMod]

\* u - v; udf is the panic("underflow") of Sub
U128Sub(u, v) == [v |-> SubDigits(u, v), udf |-> SubBorrow(u, v, 1) # 0]

\* the low 16 bits of u (the divisors of the program are 1..256)
U128Low16(u) == At(u, 14) * ByteMod + At(u, 15)

\* remainder of the number formed by the digits 1..i of a, divided by d
RECURSIVE RemUpTo(_, _, _)
RemUpTo(a, i, d) ==
    IF i = 0 THEN 0 ELSE (RemUpTo(a, i - 1, d) * ByteMod + a[i]) % d

\* u.QuoRem(v) by long division; v is byteMax, 1..256
U128QuoRem(u, v) ==
    LET d == U128Low16(v)
    IN  [q |-> [i \in 1..Len(u) |-> (RemUpTo(u, i - 1, d) * ByteMod + u[i]) \div d],
         r |-> U128From64(RemUpTo(u, Len(u), d))]

\* ------------------------------------------------------------------------
\* hostmask.go: HostMask
\* ------------------------------------------------------------------------

\* NewHostMask's loop with the partial byte left uncomplemented
RECURSIVE NewHostMaskFillPlainShift(_, _, _)
NewHostMaskFillPlainShift(mask, i, masklen) ==
    IF i < 0 THEN mask
    ELSE IF masklen < 8
         THEN SetByte(mask, i, 255 \div Pow2(masklen))
         ELSE NewHostMaskFillPlainShift(SetByte(mask, i, 255), i - 1,
                                        masklen - 8)

\* the loop of NewHostMask from byte i downward with masklen bits left
RECURSIVE NewHostMaskFill(_, _, _)
NewHostMaskFill(mask, i, masklen) ==
    IF i < 0 THEN mask
    ELSE IF masklen < 8
         THEN SetByte(mask, i, 255 - (255 \div Pow2(masklen)))
         ELSE NewHostMaskFill(SetByte(mask, i, 255), i - 1, masklen - 8)

\* NewHostMask with that loop
NewHostMaskPlainShift(masklen) ==
    IF masklen = 0 THEN Zeros(IPv6len)
    ELSE NewHostMaskFillPlainShift(Zeros(IPv6len), 15, masklen)

NewHostMask(masklen) ==
    IF masklen = 0 THEN Zeros(IPv6len)
    ELSE NewHostMaskFill(Zeros(IPv6len), 15, masklen)

\* for b&0x80 != 0 { ones++; b <<= 1 }
RECURSIVE LeadingOnes(_)
LeadingOnes(b) ==
    IF b \div 128 = 1 THEN 1 + LeadingOnes((b * 2) % ByteMod) ELSE 0

RECURSIVE SizeFrom(_, _)
SizeFrom(m, i) ==
    IF i < 0 THEN 0
    ELSE IF At(m, i) = 255 THEN 8 + SizeFrom(m, i - 1)
    ELSE LeadingOnes(At(m, i))

\* HostMask.Size: the number of ones (the total, 128, is a constant)
Size(m) == SizeFrom(m, Len(m) - 1)

\* BoundaryByte without the step back for a length that is a multiple of 8
BoundaryByteNoStepBack(m) ==
    LET hmlen == Size(m)
        pos   == 15 - (hmlen \div 8)
    IN  IF hmlen = 0 THEN [bb |-> 0, bbpos |-> -1]
        ELSE [bb |-> At(m, pos), bbpos |-> pos]

\* BoundaryByte reporting no boundary byte for a mask that ends on a byte
BoundaryByteAlignedUnset(m) ==
    LET hmlen == Size(m)
        pos   == 15 - (hmlen \div 8)
    IN  IF hmlen % 8 = 0 THEN [bb |-> 0, bbpos |-> -1]
        ELSE [bb |-> At(m, pos), bbpos |-> pos]

BoundaryByte(m) ==
    LET hmlen == Size(m)
        quo   == IF hmlen % 8 = 0 THEN (hmlen \div 8) - 1 ELSE hmlen \div 8
        pos   == 15 - quo
    IN  IF hmlen = 0 THEN [bb |-> 0, bbpos |-> -1]
        ELSE [bb |-> At(m, pos), bbpos |-> pos]


\* ------------------------------------------------------------------------
\* iplib.go: whole-address arithmetic used when there is no hostmask
\* ------------------------------------------------------------------------

\* generateNetLimits(version, filler); version 6 gives 16 bytes
generateNetLimits(version, filler) ==
    Filled(IF version = 6 THEN IPv6len ELSE version, filler)

\* IncrementIP6By: ip + count, the all-ones address on overflow
IncrementIP6By(ip, count) ==
    IF AddCarry(ip, count, 1) # 0 THEN generateNetLimits(6, 255)
    ELSE AddDigits(ip, count)

\* DecrementIP6By: ip - count, the all-zeroes address on underflow
DecrementIP6By(ip, count) ==
    IF SubBorrow(ip, count, 1) # 0 THEN generateNetLimits(6, 0)
    ELSE SubDigits(ip, count)

\* CopyIP: a new buffer holding the same bytes
CopyIP(ip) == [i \in 1..Len(ip) |-> ip[i]]

\* ------------------------------------------------------------------------
\* hostmask.go: boundary-byte and unmasked-bytes arithmetic
\* ------------------------------------------------------------------------

\* returns the carry count, the new boundary byte and whether Add panicked
\* incrementBoundaryByte counting the boundary byte in base 256, whatever
\* the mask leaves of it
incrementBoundaryByteWholeByte(bb, bv, count) ==
    LET byteMax == U128From64(256)
        byteVal == U128From64(bv)
        sum     == U128Add(count, byteVal)
        qr      == U128QuoRem(sum.v, byteMax)
    IN  IF U128IsZero(count) THEN [count |-> count, b |-> bv, panic |-> FALSE]
        ELSE IF sum.ovf THEN [count |-> count, b |-> bv, panic |-> TRUE]
        ELSE IF U128Cmp(sum.v, byteMax) < 0
             THEN [count |-> U128Zero, b |-> At(sum.v, 15), panic |-> FALSE]
        ELSE [count |-> qr.q, b |-> At(qr.r, 15), panic |-> FALSE]

incrementBoundaryByte(bb, bv, count) ==
    LET byteMax == U128From64(256 - bb)
        byteVal == U128From64(bv)
        sum     == U128Add(count, byteVal)
        qr      == U128QuoRem(sum.v, byteMax)
    IN  IF U128IsZero(count) THEN [count |-> count, b |-> bv, panic |-> FALSE]
        ELSE IF sum.ovf THEN [count |-> count, b |-> bv, panic |-> TRUE]
        ELSE IF U128Cmp(sum.v, byteMax) < 0
             THEN [count |-> U128Zero, b |-> At(sum.v, 15), panic |-> FALSE]
        ELSE [count |-> qr.q, b |-> At(qr.r, 15), panic |-> FALSE]

\* decrementBoundaryByte without the extra borrow of a wrapping byte
decrementBoundaryByteNoBorrow(bb, bv, count) ==
    LET byteMax == U128From64(256 - bb)
        byteVal == U128From64(bv)
        qr      == U128QuoRem(count, byteMax)
        bmod    == At(qr.r, 15)
        raised  == U128Add(byteVal, byteMax)
        lowered == U128Sub(raised.v, qr.r)
    IN  IF U128IsZero(count) THEN [count |-> count, b |-> bv, panic |-> FALSE]
        ELSE IF bmod > bv
             THEN [count |-> qr.q, b |-> At(lowered.v, 15),
                   panic |-> raised.ovf \/ lowered.udf]
        ELSE [count |-> qr.q, b |-> bv - bmod, panic |-> FALSE]

\* decrementBoundaryByte wrapping the byte also when it lands on zero
decrementBoundaryByteWrapAtEqual(bb, bv, count) ==
    LET byteMax == U128From64(256 - bb)
        byteVal == U128From64(bv)
        qr      == U128QuoRem(count, byteMax)
        bmod    == At(qr.r, 15)
        inc     == U128Add(qr.q, U128From64(1))
        raised  == U128Add(byteVal, byteMax)
        lowered == U128Sub(raised.v, qr.r)
    IN  IF U128IsZero(count) THEN [count |-> count, b |-> bv, panic |-> FALSE]
        ELSE IF bmod >= bv
             THEN [count |-> inc.v, b |-> At(lowered.v, 15),
                   panic |-> inc.ovf \/ raised.ovf \/ lowered.udf]
        ELSE [count |-> qr.q, b |-> bv - bmod, panic |-> FALSE]

\* returns the borrow count, the new boundary byte and whether Add64 panicked
decrementBoundaryByte(bb, bv, count) ==
    LET byteMax == U128From64(256 - bb)
        byteVal == U128From64(bv)
        qr      == U128QuoRem(count, byteMax)
        bmod    == At(qr.r, 15)
        inc     == U128Add(qr.q, U128From64(1))
        raised  == U128Add(byteVal, byteMax)
        lowered == U128Sub(raised.v, qr.r)
    IN  IF U128IsZero(count) THEN [count |-> count, b |-> bv, panic |-> FALSE]
        ELSE IF bmod > bv
             THEN [count |-> inc.v, b |-> At(lowered.v, 15),
                   panic |-> inc.ovf \/ raised.ovf \/ lowered.udf]
        ELSE [count |-> qr.q, b |-> bv - bmod, panic |-> FALSE]

\* append(make([]byte, 16-len(nb)), nb...)
PadTo16(nb) == Zeros(16 - Len(nb)) \o nb

\* Returns the bytes, whether they are the argument slice itself (alias: the
\* returned slice shares the argument's storage) and whether Add panicked.
incrementUnmaskedBytes(nb, count) ==
    LET n == U128Add(PadTo16(nb), count)
    IN  IF U128IsZero(count) THEN [b |-> nb, alias |-> TRUE, panic |-> FALSE]
        ELSE IF n.ovf THEN [b |-> <<>>, alias |-> FALSE, panic |-> TRUE]
        ELSE [b |-> Slice(n.v, 16 - Len(nb), 16), alias |-> FALSE, panic |-> FALSE]

\* As above; empty |-> TRUE is the []byte{} returned when count > n.
decrementUnmaskedBytes(nb, count) ==
    LET n == PadTo16(nb)
        d == U128Sub(n, count)
    IN  IF U128IsZero(count)
        THEN [b |-> nb, alias |-> TRUE, empty |-> Len(nb) = 0]
        ELSE IF U128Cmp(count, n) > 0
             THEN [b |-> <<>>, alias |-> FALSE, empty |-> TRUE]
        ELSE [b |-> Slice(d.v, 16 - Len(nb), 16), alias |-> FALSE, empty |-> FALSE]

\* ------------------------------------------------------------------------
\* hostmask.go: the exported functions.  Each returns
\*   ip     the returned net.IP (<<>> is net.IP{})
\*   err    "nil", an error name, or "panic"
\*   mem    the caller's buffer after the call (the argument has len = cap =
\*          16, as net.ParseIP and make(net.IP, 16) produce it)
\*   shared whether the returned slice is the caller's buffer
\* ------------------------------------------------------------------------

Fail(ip, e) == [ip |-> <<>>, err |-> e, mem |-> ip, shared |-> FALSE]

Fresh(ip, xip) == [ip |-> xip, err |-> "nil", mem |-> ip, shared |-> FALSE]

\* for _, b := range ip[from:] { if b > 0 ... }
AnySetFrom(ip, from) == \E i \in from..(Len(ip) - 1) : At(ip, i) > 0

\* xip = append(xip, bb); xip = append(xip, make([]byte, 15-bbpos)...)
\* when xip is ip[:bbpos]: both appends write into the caller's buffer
AppendInPlace(ip, bbpos, bb) ==
    [i \in 1..Len(ip) |->
        IF i - 1 < bbpos THEN ip[i] ELSE IF i - 1 = bbpos THEN bb ELSE 0]

\* the same two appends on a slice with no spare capacity: a new buffer
AppendFresh(xip, bbpos, bb) == Append(xip, bb) \o Zeros(15 - bbpos)

IncrementIP6WithinHostmask(ip, hm, count) ==
    LET bnd   == BoundaryByte(hm)
        bb    == bnd.bb
        bbpos == bnd.bbpos
        ibb   == incrementBoundaryByte(bb, At(ip, bbpos), count)
        xip   == incrementUnmaskedBytes(Slice(ip, 0, bbpos), ibb.count)
        mem   == AppendInPlace(ip, bbpos, ibb.b)
        out   == AppendFresh(xip.b, bbpos, ibb.b)
    IN  IF bbpos = 0 THEN Fail(ip, "ErrBadMaskLength")
        ELSE IF bbpos = -1 THEN Fresh(ip, IncrementIP6By(ip, count))
        ELSE IF AnySetFrom(ip, bbpos + 1) THEN Fail(ip, "ErrAddressOutOfRange")
        ELSE IF ibb.panic \/ xip.panic THEN Fail(ip, "panic")
        ELSE IF Len(xip.b) > bbpos THEN Fail(ip, "ErrAddressOutOfRange")
        ELSE IF xip.alias
             THEN \* CompareIPs(xip, ip) compares the buffer with itself
                  [ip |-> mem, err |-> "nil", mem |-> mem, shared |-> TRUE]
        ELSE IF BytesCompare(out, ip) < 0 THEN Fail(ip, "ErrAddressOutOfRange")
        ELSE Fresh(ip, out)

\* DecrementIP6WithinHostmask without the test for a boundary byte at
\* position 0
DecrementIP6WithinHostmaskAnyBoundary(ip, hm, count) ==
    LET bnd   == BoundaryByte(hm)
        bb    == bnd.bb
        bbpos == bnd.bbpos
        dbb   == decrementBoundaryByte(bb, At(ip, bbpos), count)
        xip   == decrementUnmaskedBytes(Slice(ip, 0, bbpos), dbb.count)
        mem   == AppendInPlace(ip, bbpos, dbb.b)
        out   == AppendFresh(xip.b, bbpos, dbb.b)
    IN  IF bbpos = -1 THEN Fresh(ip, DecrementIP6By(ip, count))
        ELSE IF bbpos < 15 /\ AnySetFrom(ip, bbpos + 1)
             THEN Fail(ip, "ErrAddressOutOfRange")
        ELSE IF bbpos < 15 /\ (At(ip, bbpos) + bb) % ByteMod < bb
             THEN Fail(ip, "ErrAddressOutOfRange")
        ELSE IF dbb.panic THEN Fail(ip, "panic")
        ELSE IF xip.empty THEN Fail(ip, "ErrAddressOutOfRange")
        ELSE IF Len(xip.b) > bbpos THEN Fail(ip, "ErrAddressOutOfRange")
        ELSE IF xip.alias
             THEN [ip |-> mem, err |-> "nil", mem |-> mem, shared |-> TRUE]
        ELSE Fresh(ip, out)

DecrementIP6WithinHostmask(ip, hm, count) ==
    LET bnd   == BoundaryByte(hm)
        bb    == bnd.bb
        bbpos == bnd.bbpos
        dbb   == decrementBoundaryByte(bb, At(ip, bbpos), count)
        xip   == decrementUnmaskedBytes(Slice(ip, 0, bbpos), dbb.count)
        mem   == AppendInPlace(ip, bbpos, dbb.b)
        out   == AppendFresh(xip.b, bbpos, dbb.b)
    IN  IF bbpos = 0 THEN Fail(ip, "ErrBadMaskLength")
        ELSE IF bbpos = -1 THEN Fresh(ip, DecrementIP6By(ip, count))
        ELSE IF bbpos < 15 /\ AnySetFrom(ip, bbpos + 1)
             THEN Fail(ip, "ErrAddressOutOfRange")
        ELSE IF bbpos < 15 /\ (At(ip, bbpos) + bb) % ByteMod < bb
             THEN Fail(ip, "ErrAddressOutOfRange")
        ELSE IF dbb.panic THEN Fail(ip, "panic")
        ELSE IF xip.empty THEN Fail(ip, "ErrAddressOutOfRange")
        ELSE IF Len(xip.b) > bbpos THEN Fail(ip, "ErrAddressOutOfRange")
        ELSE IF xip.alias
             THEN [ip |-> mem, err |-> "nil", mem |-> mem, shared |-> TRUE]
        ELSE Fresh(ip, out)

\* the loop of NextIP6WithinHostmask from byte i downward
RECURSIVE NextScan(_, _, _, _)
NextScan(ip, xip, hm, i) ==
    IF i < 0 THEN Fail(ip, "ErrAddressOutOfRange")
    ELSE IF At(hm, i) = 255
         THEN IF At(xip, i) > 0 THEN Fail(ip, "ErrAddressOutOfRange")
              ELSE NextScan(ip, xip, hm, i - 1)
    ELSE IF ByteOr(At(xip, i), At(hm, i)) = 255
         THEN NextScan(ip, SetByte(xip, i, 0), hm, i - 1)
    ELSE LET inc == (At(xip, i) + 1) % ByteMod
         IN  IF inc > 0 THEN Fresh(ip, SetByte(xip, i, inc))
             ELSE NextScan(ip, SetByte(xip, i, inc), hm, i - 1)

\* NextIP6WithinHostmask stepping through the masked bits as well
NextIP6IgnoringHostmask(ip, hm) ==
    NextScan(ip, CopyIP(ip), Zeros(IPv6len), Len(ip) - 1)

NextIP6WithinHostmask(ip, hm) == NextScan(ip, CopyIP(ip), hm, Len(ip) - 1)

\* the loop of PreviousIP6WithinHostmask from byte i downward
RECURSIVE PreviousScan(_, _, _, _, _, _)
PreviousScan(ip, xip, hm, i, bbpos, bbmax) ==
    IF i < 0 THEN Fail(ip, "ErrAddressOutOfRange")
    ELSE IF At(hm, i) = 255
         THEN IF At(xip, i) > 0 THEN Fail(ip, "ErrAddressOutOfRange")
              ELSE PreviousScan(ip, xip, hm, i - 1, bbpos, bbmax)
    ELSE LET dec == (At(xip, i) + ByteMod - 1) % ByteMod
             yip == SetByte(xip, i, dec)
         IN  IF dec # 255
             THEN IF i = bbpos - 1
                  THEN Fresh(ip, SetByte(yip, bbpos, bbmax))
                  ELSE Fresh(ip, yip)
             ELSE PreviousScan(ip, yip, hm, i - 1, bbpos, bbmax)

PreviousIP6WithinHostmask(ip, hm) ==
    LET bnd == BoundaryByte(hm)
    IN  PreviousScan(ip, CopyIP(ip), hm, Len(ip) - 1, bnd.bbpos, 255 - bnd.bb)


\* ------------------------------------------------------------------------
\* net.IP of the Go standard library, as iplib.go uses it.  nil is <<>>.
\* ------------------------------------------------------------------------

\* the first 12 bytes of an IPv4 address held in 16 bytes (::ffff:a.b.c.d)
v4InV6Prefix == Zeros(10) \o <<255, 255>>

\* ip.To4(): the 4-byte form of an IPv4 address, nil for anything else
To4(ip) ==
    IF Len(ip) = IPv4len THEN ip
    ELSE IF Len(ip) = IPv6len /\ Slice(ip, 0, 12) = v4InV6Prefix
         THEN Slice(ip, 12, 16)
    ELSE <<>>

\* ip.To16(): the 16-byte form
To16(ip) ==
    IF Len(ip) = IPv4len THEN v4InV6Prefix \o ip
    ELSE IF Len(ip) = IPv6len THEN ip
    ELSE <<>>

\* net.CIDRMask(ones, bits): ones leading one-bits in bits/8 bytes
CIDRMask(ones, bits) ==
    IF ones < 0 \/ ones > bits THEN <<>>
    ELSE [i \in 1..(bits \div 8) |->
            IF ones >= 8 * i THEN 255
            ELSE IF ones <= 8 * (i - 1) THEN 0
            ELSE 255 - (255 \div Pow2(ones - 8 * (i - 1)))]

\* ip.Mask(mask): a 4-byte mask applies to the last 4 bytes of an IPv4
\* address held in 16 bytes; the result is nil when the lengths differ
IPMask(ip, mask) ==
    LET m  == IF Len(mask) = IPv6len /\ Len(ip) = IPv4len
                 /\ Slice(mask, 0, 12) = Filled(12, 255)
              THEN Slice(mask, 12, 16) ELSE mask
        x  == IF Len(m) = IPv4len /\ Len(ip) = IPv6len
                 /\ Slice(ip, 0, 12) = v4InV6Prefix
              THEN Slice(ip, 12, 16) ELSE ip
    IN  IF Len(x) # Len(m) THEN <<>>
        ELSE [i \in 1..Len(x) |-> ByteAnd(x[i], m[i])]

\* mask.Size(): the number of leading ones
RECURSIVE MaskOnesFrom(_, _)
MaskOnesFrom(mask, i) ==
    IF i > Len(mask) THEN 0
    ELSE IF mask[i] = 255 THEN 8 + MaskOnesFrom(mask, i + 1)
    ELSE LeadingOnes(mask[i])

MaskSize(mask) == MaskOnesFrom(mask, 1)

\* ------------------------------------------------------------------------
\* iplib.go: addresses and netblocks
\* ------------------------------------------------------------------------

CompareIPs(a, b) == BytesCompare(To16(a), To16(b))

EffectiveVersion(ip) == IF To4(ip) = <<>> THEN 6 ELSE 4

\* copy(ipn, ip) into make([]byte, n): the first n bytes of ip
CopyInto(n, ip) == [i \in 1..n |-> IF i <= Len(ip) THEN ip[i] ELSE 0]

\* the loop of NextIP from byte i downward; ip is returned when it wraps
RECURSIVE NextIPScan(_, _, _)
NextIPScan(ip, ipn, i) ==
    IF i < 0 THEN ip
    ELSE LET inc == (At(ipn, i) + 1) % ByteMod
         IN  IF inc > 0 THEN SetByte(ipn, i, inc)
             ELSE NextIPScan(ip, SetByte(ipn, i, inc), i - 1)

\* NextIP without the increment
NextIPStuck(ip) == ip

NextIP(ip) ==
    LET ipn == IF EffectiveVersion(ip) = 4 THEN CopyInto(IPv4len, ip)
               ELSE CopyInto(IPv6len, ip)
    IN  NextIPScan(ip, ipn, Len(ipn) - 1)

maskMax(ip) == IF EffectiveVersion(ip) = 4 THEN 32 ELSE 128

\* NewNet: the block holding ip at masklen; IP is ip masked to the netmask
NewNet(ip, masklen) ==
    LET mask == CIDRMask(masklen, maskMax(ip))
    IN  [IP |-> IPMask(ip, mask), Mask |-> mask]

\* the zero value Net4{} / Net6{}: IP() is nil
EmptyNet == [IP |-> <<>>, Mask |-> <<>>]

Wildcard(n) == [i \in 1..Len(n.Mask) |-> 255 - n.Mask[i]]

\* the last address of the block and the number of masked bits
finalAddress(n) ==
    LET wc == Wildcard(n)
    IN  [ip   |-> [i \in 1..Len(n.IP) |-> (n.IP[i] + wc[i]) % ByteMod],
         ones |-> MaskSize(n.Mask)]

\* ------------------------------------------------------------------------
\* net.go: range fitting
\* ------------------------------------------------------------------------

\* fitNetworkBetween with the start test taken alone: a block is accepted
\* wherever it ends
fitTestStartOnly(a, b, mask) ==
    LET xnet    == NewNet(a, mask)
        finalIP == finalAddress(xnet).ip
        va      == CompareIPs(xnet.IP, a)
        vb      == CompareIPs(finalIP, b)
    IN  IF va = 0 /\ vb = 0 THEN "exact"
        ELSE IF va >= 0 THEN "fit"
        ELSE "recurse"

\* one level of fitNetworkBetween: what the tests on the block of a at mask
\* decide ("exact", "fit", or "recurse" with mask + 1)
fitTest(a, b, mask) ==
    LET xnet    == NewNet(a, mask)
        finalIP == finalAddress(xnet).ip
        va      == CompareIPs(xnet.IP, a)
        vb      == CompareIPs(finalIP, b)
    IN  IF va = 0 /\ vb = 0 THEN "exact"
        ELSE IF va >= 0 /\ vb <= 0 THEN "fit"
        ELSE "recurse"

\* The function calls itself with mask + 1 as its last step, so its result is
\* that of the first mask, counting up from the one given, whose test does
\* not recurse.  Past maskMax(a) the block's IP is nil, which compares below
\* a at every mask: a search that has not stopped by maskMax(a) + 1 recurses
\* without end, which err |-> "unbounded" stands for.
fitNetworkBetween(a, b, mask) ==
    IF CompareIPs(a, b) > 0
    THEN [net |-> NewNet(b, maskMax(b)), exact |-> TRUE, err |-> "nil"]
    ELSE LET stops == {m \in mask..(maskMax(a) + 1) :
                          fitTest(a, b, m) # "recurse"}
             first == CHOOSE m \in stops : \A k \in stops : m <= k
         IN  IF stops = {}
             THEN [net |-> EmptyNet, exact |-> FALSE, err |-> "unbounded"]
             ELSE [net   |-> NewNet(a, first),
                   exact |-> fitTest(a, b, first) = "exact",
                   err   |-> "nil"]

\* NewNetBetween without the test on the two versions
NewNetBetweenAnyVersion(a, b) ==
    IF CompareIPs(a, b) = 1
    THEN [net |-> EmptyNet, exact |-> FALSE, err |-> "ErrNoValidRange"]
    ELSE fitNetworkBetween(a, b, 1)

NewNetBetween(a, b) ==
    IF CompareIPs(a, b) = 1
    THEN [net |-> EmptyNet, exact |-> FALSE, err |-> "ErrNoValidRange"]
    ELSE IF EffectiveVersion(a) # EffectiveVersion(b)
         THEN [net |-> EmptyNet, exact |-> FALSE, err |-> "ErrNoValidRange"]
    ELSE fitNetworkBetween(a, b, 1)

\* ------------------------------------------------------------------------
\* iplib.go: the struct Net (an IPNet with its version) and its methods.
\* A uint32 count, size or offset is a natural number; the uint32 made from
\* an address is kept as its 4 big-endian bytes.
\* ------------------------------------------------------------------------

MaxIPv4 == Pow2(32) - 1

ForceIP4(ip) == IF Len(ip) = IPv6len THEN Slice(ip, 12, 16) ELSE ip

\* the 4 big-endian bytes of the uint32; 0 for an address that is not IPv4
IP4ToUint32(ip) ==
    IF EffectiveVersion(ip) # 4 THEN Zeros(IPv4len) ELSE ForceIP4(ip)

Uint32ToIP4(u) == u

\* the loop of PreviousIP from byte i downward; ip is returned when it wraps
RECURSIVE PreviousIPScan(_, _, _)
PreviousIPScan(ip, ipn, i) ==
    IF i < 0 THEN ip
    ELSE LET dec == (At(ipn, i) + ByteMod - 1) % ByteMod
         IN  IF dec # 255 THEN SetByte(ipn, i, dec)
             ELSE PreviousIPScan(ip, SetByte(ipn, i, dec), i - 1)

PreviousIP(ip) ==
    LET ipn == IF EffectiveVersion(ip) = 4 THEN CopyInto(IPv4len, To4(ip))
               ELSE CopyInto(IPv6len, ip)
    IN  PreviousIPScan(ip, ipn, Len(ipn) - 1)

\* ip.Equal(x): the same address, a 4-byte IPv4 address being equal to its
\* 16-byte form
IPEqual(ip, x) ==
    IF Len(ip) = Len(x) THEN ip = x
    ELSE IF Len(ip) = IPv4len /\ Len(x) = IPv6len
         THEN Slice(x, 0, 12) = v4InV6Prefix /\ ip = Slice(x, 12, 16)
    ELSE IF Len(ip) = IPv6len /\ Len(x) = IPv4len
         THEN Slice(ip, 0, 12) = v4InV6Prefix /\ Slice(ip, 12, 16) = x
    ELSE FALSE

\* net.IPNet.Contains: the network number and mask brought to one length
\* (nil when they cannot be), ip taken in 4 bytes when it is IPv4, and
\* false when the lengths then differ
Contains(n, ip) ==
    LET nip == IF To4(n.IP) # <<>> THEN To4(n.IP)
               ELSE IF Len(n.IP) = IPv6len THEN n.IP ELSE <<>>
        ok  == /\ nip # <<>>
               /\ \/ Len(n.Mask) = IPv4len /\ Len(nip) = IPv4len
                  \/ Len(n.Mask) = IPv6len
        m   == IF Len(n.Mask) = IPv6len /\ Len(nip) = IPv4len
               THEN Slice(n.Mask, 12, 16) ELSE n.Mask
        nn  == IF ok THEN nip ELSE <<>>
        x   == IF To4(ip) # <<>> THEN To4(ip) ELSE ip
    IN  /\ Len(x) = Len(nn)
        /\ \A i \in 1..Len(x) : ByteAnd(nn[i], m[i]) = ByteAnd(x[i], m[i])

\* the struct Net as NewNet of iplib.go builds it
NewNetStruct(ip, masklen) ==
    LET version == EffectiveVersion(ip)
        mask    == CIDRMask(masklen, IF version = 6 THEN 128 ELSE 32)
    IN  [IP |-> IPMask(ip, mask), Mask |-> mask, version |-> version]

\* the zero value Net{}
NetZero == [IP |-> <<>>, Mask |-> <<>>, version |-> 0]

NetworkAddress(n) == n.IP

BroadcastAddress(n) == finalAddress(n).ip

\* mask.Size(): ones and bits
MaskBits(mask) == 8 * Len(mask)

Count4(n) ==
    LET exp == MaskBits(n.Mask) - MaskSize(n.Mask)
    IN  IF exp = 1 THEN 0
        ELSE IF exp = 0 THEN 1
        ELSE Pow2(exp) - 2

Count6(n) ==
    LET exp == MaskBits(n.Mask) - MaskSize(n.Mask)
    IN  IF exp = 1 THEN 0
        ELSE IF exp = 0 THEN 1
        ELSE IF n.version = 6 THEN Pow2(exp)
        ELSE Pow2(exp) - 2

\* Count6 exceeds MaxIPv4 from 32 host bits on
Count(n) ==
    IF n.version = 4 THEN Count4(n)
    ELSE IF MaskBits(n.Mask) - MaskSize(n.Mask) >= 32 THEN MaxIPv4
    ELSE Count6(n)

FirstAddress(n) ==
    IF n.version = 6 THEN n.IP
    ELSE IF MaskSize(n.Mask) + 2 > MaskBits(n.Mask) THEN n.IP
    ELSE NextIP(n.IP)

LastAddress(n) ==
    LET f == finalAddress(n)
    IN  IF n.version = 6 THEN f.ip
        ELSE IF f.ones >= 31 /\ n.version = 4 THEN f.ip
        ELSE PreviousIP(f.ip)

\* the loop of Enumerate: addrList[i] = NextIP(addrList[i-1]) up to size
RECURSIVE EnumerateFill(_, _)
EnumerateFill(addrList, size) ==
    IF Len(addrList) >= size THEN addrList
    ELSE EnumerateFill(Append(addrList, NextIP(addrList[Len(addrList)])), size)

\* Enumerate: the list, or panic when it indexes addrList[0] of an empty
\* slice
Enumerate(n, size, offset) ==
    LET count == Count(n)
        sz    == IF size > count - offset \/ size = 0
                 THEN count - offset ELSE size
        both  == <<NetworkAddress(n), BroadcastAddress(n)>>
        netu  == AddDigits(IP4ToUint32(FirstAddress(n)),
                           BytesOfNat(offset, IPv4len))
    IN  IF offset > count THEN [list |-> <<>>, panic |-> FALSE]
        ELSE IF count = 1 THEN [list |-> <<n.IP>>, panic |-> FALSE]
        ELSE IF count = 0
             THEN [list |-> [i \in 1..(2 - offset) |-> both[i + offset]],
                   panic |-> FALSE]
        ELSE IF sz = 0 THEN [list |-> <<>>, panic |-> TRUE]
        ELSE [list  |-> EnumerateFill(<<Uint32ToIP4(netu)>>, sz),
              panic |-> FALSE]

\* Net.NextIP: the address and the error
Net_NextIP(n, ip) ==
    LET xip == NextIP(ip)
    IN  IF ~Contains(n, ip)
        THEN [ip |-> <<>>, err |-> "ErrAddressOutOfRange"]
        ELSE IF ~Contains(n, xip)
        THEN [ip |-> <<>>, err |-> "ErrAddressAtEndOfRange"]
        ELSE IF IPEqual(BroadcastAddress(n), xip) /\ n.version = 4
        THEN [ip |-> xip, err |-> "ErrBroadcastAddress"]
        ELSE [ip |-> xip, err |-> "nil"]

\* Net.PreviousIP: the address and the error
Net_PreviousIP(n, ip) ==
    LET xip == PreviousIP(ip)
    IN  IF ~Contains(n, ip)
        THEN [ip |-> <<>>, err |-> "ErrAddressOutOfRange"]
        ELSE IF ~Contains(n, xip)
        THEN [ip |-> <<>>, err |-> "ErrAddressAtEndOfRange"]
        ELSE IF IPEqual(NetworkAddress(n), xip) /\ n.version = 4
        THEN [ip |-> xip, err |-> "ErrNetworkAddress"]
        ELSE [ip |-> xip, err |-> "nil"]

\* the most blocks the loop of Subnet is followed for: a split MaxSplit bits
\* deeper makes this many
MaxNets == Pow2(MaxSplit)

\* The loop of Subnet: blocks are appended while the last one ends below the
\* end of n.  err |-> "overrun" stands for a loop that is still appending
\* with MaxNets blocks in the list.
RECURSIVE SubnetFill(_, _, _)
SubnetFill(n, netlist, mask) ==
    \* nl and last are bound once, so that the list is not rebuilt at each use
    CHOOSE r \in
        { IF CompareIPs(BroadcastAddress(last), BroadcastAddress(n)) # -1
          THEN [nets |-> nl, err |-> "nil"]
          ELSE IF Len(nl) >= MaxNets
          THEN [nets |-> nl, err |-> "overrun"]
          ELSE SubnetFill(n,
                          Append(nl,
                                 [IP      |-> NextIP(BroadcastAddress(last)),
                                  Mask    |-> mask,
                                  version |-> n.version]),
                          mask)
          : <<nl, last>> \in { <<l, l[Len(l)]>> : l \in {netlist} } } : TRUE

\* Subnet without the test of the mask length
SubnetUnchecked(n, masklen) ==
    LET ones == MaskSize(n.Mask)
        ml   == IF masklen = 0 THEN ones + 1 ELSE masklen
        mask == CIDRMask(ml, MaskBits(n.Mask))
    IN  SubnetFill(n,
                   <<[IP |-> NetworkAddress(n), Mask |-> mask,
                      version |-> n.version]>>,
                   mask)

Subnet(n, masklen) ==
    LET ones == MaskSize(n.Mask)
        ml   == IF masklen = 0 THEN ones + 1 ELSE masklen
        mask == CIDRMask(ml, MaskBits(n.Mask))
    IN  IF ones > masklen THEN [nets |-> <<>>, err |-> "ErrBadMaskLength"]
        ELSE SubnetFill(n,
                        <<[IP |-> NetworkAddress(n), Mask |-> mask,
                           version |-> n.version]>>,
                        mask)

\* Supernet keeping the address as it is
SupernetUnmasked(n, masklen) ==
    LET ones == MaskSize(n.Mask)
        ml   == IF masklen = 0 THEN ones - 1 ELSE masklen
        mask == CIDRMask(ml, MaskBits(n.Mask))
    IN  IF ones < masklen THEN [net |-> NetZero, err |-> "ErrBadMaskLength"]
        ELSE [net |-> [IP |-> n.IP, Mask |-> mask, version |-> n.version],
              err |-> "nil"]

Supernet(n, masklen) ==
    LET ones == MaskSize(n.Mask)
        ml   == IF masklen = 0 THEN ones - 1 ELSE masklen
        mask == CIDRMask(ml, MaskBits(n.Mask))
    IN  IF ones < masklen THEN [net |-> NetZero, err |-> "ErrBadMaskLength"]
        ELSE [net |-> [IP |-> IPMask(n.IP, mask), Mask |-> mask,
                       version |-> n.version],
              err |-> "nil"]

Net_NextNet(n, masklen) == NewNetStruct(NextIP(BroadcastAddress(n)), masklen)

Net_PreviousNet(n, masklen) ==
    NewNetStruct(PreviousIP(NetworkAddress(n)), masklen)

\* ------------------------------------------------------------------------
\* State
\* ------------------------------------------------------------------------

VARIABLES
    hmlen,     \* the hostmask length the caller built its HostMask from
    buf,       \* the caller's address buffer, as it is now
    arg,       \* the bytes of buf when the last call was made
    cnt,       \* the count passed to the last Increment/Decrement call
    op,        \* the last call, "none" before a call
    res,       \* the net.IP the last call returned (<<>> is net.IP{})
    err,       \* the error the last call returned, "nil" for none
    shared,    \* the returned slice is the caller's buffer
    calls,     \* calls made so far
    prevOp,    \* the call whose result is the current input, or "none"
    prevArg,   \* the input of that call
    rfA,       \* AllNetsBetween: the first address the caller passed
    rfB,       \* AllNetsBetween: the last address the caller passed
    curA,      \* the loop's a: where the next block must start
    nets,      \* the blocks appended so far
    lastNet,   \* the loop's lastNet
    rpc,       \* "ready" before the call, "loop" inside it, "done" after return
    rerr,      \* the error AllNetsBetween returned, "nil" for none
    fitA,      \* the first argument of the loop's last NewNetBetween call
    fit,       \* what that call returned
    steps,     \* steps the AllNetsBetween call has taken
    nblk,      \* the Net the caller holds
    nparent,   \* the Net it was taken from with Subnet, NetZero if none
    nop,       \* the last method called on nblk, "none" before a call
    narg,      \* the arguments of that call
    nret,      \* what that call returned
    nderived,  \* blocks derived one from the other to reach nblk
    pfn,       \* the function called on its own, "none" before the call
    pin,       \* its arguments
    pout       \* what it returned

hmVars == <<hmlen, buf, arg, cnt, op, res, err, shared, calls, prevOp, prevArg>>

rangeVars == <<rfA, rfB, curA, nets, lastNet, rpc, rerr, fitA, fit, steps>>

netVars == <<nblk, nparent, nop, narg, nret, nderived>>

pureVars == <<pfn, pin, pout>>

\* ------------------------------------------------------------------------
\* Inputs of the hostmask calls
\* ------------------------------------------------------------------------

\* hostmask lengths: none, inside the last byte, byte-aligned and not, with
\* one byte left above the boundary, and with none (121..128)
HmLens == {0, 1, 5, 8, 53, 64, 113, 120, 121, 128}

\* a 16-byte address: hi in the bytes before p-2, n2 and n1 in the two bytes
\* above byte p, bv in byte p, zeroes after it and low in the last byte
Template(p, hi, n2, n1, bv, low) ==
    [i \in 1..IPv6len |->
        IF i - 1 < p - 2 THEN hi
        ELSE IF i - 1 = p - 2 THEN n2
        ELSE IF i - 1 = p - 1 THEN n1
        ELSE IF i - 1 = p THEN bv
        ELSE IF i - 1 = 15 THEN low
        ELSE 0]

\* the last byte holding an unmasked bit under a hostmask of n bits (the
\* boundary byte when n is not a multiple of 8), and the number of values
\* its unmasked bits take
InputPos(n) == IF n = 0 THEN 15 ELSE 15 - ((n - 1) \div 8)

InputBase(n) ==
    IF n = 0 THEN 256 ELSE IF n % 8 = 0 THEN 1 ELSE Pow2(8 - (n % 8))

\* the addresses tried with a hostmask of length n: addresses with no bit
\* inside the hostmask, varied around byte InputPos(n), and a few with bits
\* inside the hostmask
InputAddresses(n) ==
    LET p    == InputPos(n)
        base == InputBase(n)
    IN  { Template(p, hi, n2, n1, bv, 0) :
            hi \in {0, 255}, n2 \in {0, 255}, n1 \in {0, 1, 255},
            bv \in {0, base - 1, IF base > 1 THEN 1 ELSE 0} }
        \cup { Template(p, 0, 0, 1, bv, 0) : bv \in {base % ByteMod, 255} }
        \cup { Template(p, 0, 0, 1, 0, 1) }

\* 2^(8k) as a Uint128
U128Byte(k) == [i \in 1..16 |-> IF i = 16 - k THEN 1 ELSE 0]

InputCounts ==
    { U128From64(v) : v \in {0, 1, 2, 7, 8, 255, 256, 1000} }
    \cup { U128Byte(k) : k \in {8, 9, 15} }
    \cup { Filled(16, 255) }

\* ------------------------------------------------------------------------
\* The calls of a caller holding one address buffer and one hostmask
\* ------------------------------------------------------------------------

InitHM ==
    /\ hmlen \in HmLens
    /\ buf \in InputAddresses(hmlen)
    /\ arg = buf
    /\ cnt = U128Zero
    /\ op = "none"
    /\ res = <<>>
    /\ err = "nil"
    /\ shared = FALSE
    /\ calls = 0
    /\ prevOp = "none"
    /\ prevArg = <<>>

Returned(name, c, r) ==
    /\ op' = name
    /\ arg' = buf
    /\ cnt' = c
    /\ buf' = r.mem
    /\ res' = r.ip
    /\ err' = r.err
    /\ shared' = r.shared
    /\ calls' = calls + 1
    /\ UNCHANGED <<hmlen, prevOp, prevArg>>
    /\ UNCHANGED <<rangeVars, netVars, pureVars>>

CanCall == op = "none" /\ calls < MaxCalls

CallIncrement ==
    /\ CanCall
    /\ \E c \in InputCounts :
       \E hm \in {NewHostMask(hmlen)} :
       \E r \in {IncrementIP6WithinHostmask(buf, hm, c)} :
          Returned("Increment", c, r)

CallDecrement ==
    /\ CanCall
    /\ \E c \in InputCounts :
       \E hm \in {NewHostMask(hmlen)} :
       \E r \in {DecrementIP6WithinHostmask(buf, hm, c)} :
          Returned("Decrement", c, r)

CallNext ==
    /\ CanCall
    /\ \E hm \in {NewHostMask(hmlen)} :
       \E r \in {NextIP6WithinHostmask(buf, hm)} :
          Returned("Next", U128Zero, r)

CallPrevious ==
    /\ CanCall
    /\ \E hm \in {NewHostMask(hmlen)} :
       \E r \in {PreviousIP6WithinHostmask(buf, hm)} :
          Returned("Previous", U128Zero, r)

\* the caller steps on: the address a Next/Previous call returned is the
\* input of its following call
Reuse ==
    /\ op \in {"Next", "Previous"}
    /\ err = "nil"
    /\ calls < MaxCalls
    /\ prevOp' = op
    /\ prevArg' = arg
    /\ buf' = res
    /\ arg' = res
    /\ op' = "none"
    /\ res' = <<>>
    /\ cnt' = U128Zero
    /\ shared' = FALSE
    /\ UNCHANGED <<hmlen, err, calls>>
    /\ UNCHANGED <<rangeVars, netVars, pureVars>>

NextHM == CallIncrement \/ CallDecrement \/ CallNext \/ CallPrevious \/ Reuse

\* ------------------------------------------------------------------------
\* AllNetsBetween, one loop iteration per step
\* ------------------------------------------------------------------------

NoFit == [net |-> EmptyNet, exact |-> FALSE, err |-> "nil"]

Offsets == 0..MaxOffset

V4Zero  == <<0, 0, 0, 0>>
V4Mid   == <<192, 168, 0, 254>>
V4Top   == <<255, 255, 255, 255 - MaxOffset>>
V4In16  == v4InV6Prefix \o <<10, 0, 0, 254>>
V6Zero  == Zeros(16)
V6Below == Zeros(8) \o <<0, 0, 255, 254, 255, 255, 255, 253>>
V6Over  == Zeros(8) \o <<0, 1, 0, 0, 0, 0, 0, 0>>
V6Doc   == <<32, 1, 13, 184>> \o Zeros(10) \o <<255, 254>>
V6Doc2  == <<32, 1, 13, 184>> \o Zeros(6) \o <<0, 1, 0, 0, 255, 252>>
V6Top   == Filled(15, 255) \o <<255 - MaxOffset>>

\* the address k above an anchor
Bump(anchor, k) == AddDigits(anchor, BytesOfNat(k, Len(anchor)))

Anchors == {V4Zero, V4Mid, V4Top, V4In16, V6Zero, V6Below, V6Over, V6Doc,
            V6Doc2, V6Top}

AnchorPairs == {<<V4Zero, V4Top>>, <<V4In16, V4Mid>>, <<V4Mid, V4In16>>,
                <<V6Below, V6Over>>, <<V6Doc, V6Doc2>>, <<V6Zero, V6Over>>,
                <<V4Mid, V6Doc>>, <<V6Doc, V4Mid>>, <<V4Zero, V6Zero>>}

InputPairs ==
    {<<Bump(p[1], i), Bump(p[2], j)>> :
        p \in {<<x, x>> : x \in Anchors} \cup AnchorPairs,
        i \in Offsets, j \in Offsets}

RangeIdle ==
    /\ rfA = <<>>
    /\ rfB = <<>>
    /\ curA = <<>>
    /\ nets = <<>>
    /\ lastNet = EmptyNet
    /\ rpc = "idle"
    /\ rerr = "nil"
    /\ fitA = <<>>
    /\ fit = NoFit
    /\ steps = 0

HMIdle ==
    /\ hmlen = 0
    /\ buf = <<>>
    /\ arg = <<>>
    /\ cnt = U128Zero
    /\ op = "idle"
    /\ res = <<>>
    /\ err = "nil"
    /\ shared = FALSE
    /\ calls = 0
    /\ prevOp = "none"
    /\ prevArg = <<>>

\* no argument and no result
NoArg == [size |-> 0, offset |-> 0, masklen |-> 0, ip |-> <<>>]

NoRet == [count |-> 0, list |-> <<>>, panic |-> FALSE, nets |-> <<>>,
          net |-> NetZero, ip |-> <<>>, err |-> "nil"]

NetIdle ==
    /\ nblk = NetZero
    /\ nparent = NetZero
    /\ nop = "idle"
    /\ narg = NoArg
    /\ nret = NoRet
    /\ nderived = 0

\* no argument and no result of a function called on its own
NoPIn == [n |-> 0, mask |-> <<>>, ip |-> <<>>, bb |-> 0, bv |-> 0,
          count |-> <<>>]

NoPOut == [n |-> 0, mask |-> <<>>, ip |-> <<>>, bb |-> 0, bbpos |-> 0,
           bv |-> 0, borrow |-> <<>>]

PureIdle ==
    /\ pfn = "idle"
    /\ pin = NoPIn
    /\ pout = NoPOut

InitRange ==
    /\ \E p \in InputPairs : rfA = p[1] /\ rfB = p[2]
    /\ curA = <<>>
    /\ nets = <<>>
    /\ lastNet = EmptyNet
    /\ rpc = "ready"
    /\ rerr = "nil"
    /\ fitA = <<>>
    /\ fit = NoFit
    /\ steps = 0
    /\ HMIdle
    /\ NetIdle
    /\ PureIdle

\* entry: lastNet is the zero Net of a's version, nets is empty
CallAllNetsBetween ==
    /\ rpc = "ready"
    /\ rpc' = "loop"
    /\ curA' = rfA
    /\ lastNet' = EmptyNet
    /\ nets' = <<>>
    /\ steps' = steps + 1
    /\ UNCHANGED <<rfA, rfB, rerr, fitA, fit>>
    /\ UNCHANGED <<hmVars, netVars, pureVars>>

\* one pass through the for loop
Iterate ==
    /\ rpc = "loop"
    /\ \E r \in {NewNetBetween(curA, rfB)} :
       \E finalIP \in {finalAddress(r.net).ip} :
       \E a \in {NextIP(finalIP)} :
       LET grown == Append(nets, r.net)
       IN  /\ fitA' = curA
           /\ fit' = r
           /\ IF r.err = "unbounded"
              THEN /\ rpc' = "hung"
                   /\ UNCHANGED <<nets, lastNet, curA, rerr>>
              ELSE IF r.err # "nil"
              THEN /\ rerr' = r.err
                   /\ rpc' = "done"
                   /\ UNCHANGED <<nets, lastNet, curA>>
              ELSE IF r.exact \/ CompareIPs(finalIP, rfB) > 0
              THEN /\ nets' = grown
                   /\ rpc' = "done"
                   /\ UNCHANGED <<rerr, lastNet, curA>>
              ELSE IF lastNet.IP # <<>> /\ CompareIPs(r.net.IP, lastNet.IP) <= 0
              THEN /\ nets' = grown
                   /\ rpc' = "done"
                   /\ UNCHANGED <<rerr, lastNet, curA>>
              ELSE /\ nets' = grown
                   /\ lastNet' = r.net
                   /\ curA' = a
                   /\ rpc' = IF CompareIPs(a, rfB) > 0 THEN "done" ELSE "loop"
                   /\ UNCHANGED rerr
    /\ steps' = steps + 1
    /\ UNCHANGED <<rfA, rfB>>
    /\ UNCHANGED <<hmVars, netVars, pureVars>>

NextRange == CallAllNetsBetween \/ Iterate

vars == <<hmVars, rangeVars, netVars, pureVars>>

Init == InitHM /\ RangeIdle /\ NetIdle /\ PureIdle

Next == NextHM

Spec == Init /\ [][Next]_vars

SpecRange == InitRange /\ [][NextRange]_vars

\* the call is at a point from which it has a next step
Running == rpc \in {"ready", "loop"}

\* A call that can step does step: the function runs on the caller's thread
\* and waits for nothing.  Every step of NextRange counts in steps, and
\* NextRange has a step exactly where Running holds.
SpecRangeFair == SpecRange /\ WF_steps(Running /\ steps' = steps + 1)

\* ------------------------------------------------------------------------
\* The calls of a caller holding one Net
\* ------------------------------------------------------------------------

N4Zero  == <<0, 0, 0, 0>>
N4Doc   == <<192, 168, 1, 77>>
N4Top   == <<255, 255, 255, 255>>
N4In16  == v4InV6Prefix \o <<10, 0, 0, 1>>
N6Zero  == Zeros(16)
N6Doc   == <<32, 1, 13, 184>> \o Zeros(11) \o <<5>>
N6Top   == Filled(16, 255)

NetAnchors == {N4Zero, N4Doc, N4Top, N4In16, N6Zero, N6Doc, N6Top}

\* mask lengths of the blocks: the whole space, half of it, a byte of
\* hosts, MaxHostBits host bits and fewer, and for IPv6 the /79 whose halves
\* are /80
NetLens(ip) ==
    LET w == maskMax(ip)
    IN  {0, 1, w - 8} \cup ((w - MaxHostBits)..w)
        \cup (IF w = 128 THEN {79} ELSE {})

NetInputs == UNION { {NewNetStruct(ip, m) : m \in NetLens(ip)} : ip \in NetAnchors }

HostBits(n) == MaskBits(n.Mask) - MaskSize(n.Mask)

\* mask lengths passed to Subnet and Supernet: 0 and those within MaxSplit
\* of the block's own
NetMasklens(n) ==
    {0} \cup {m \in (MaskSize(n.Mask) - MaxSplit)..(MaskSize(n.Mask) + MaxSplit) :
                 m >= 0 /\ m <= MaskBits(n.Mask)}

\* addresses passed to NextIP and PreviousIP: both ends of the block, their
\* neighbours inside and outside, each also in 16 bytes
StepInputs(n) ==
    LET lo   == NetworkAddress(n)
        hi   == BroadcastAddress(n)
        near == {lo, hi, NextIP(lo), PreviousIP(hi), NextIP(hi), PreviousIP(lo)}
    IN  near \cup {To16(x) : x \in near}

InitNet ==
    /\ nblk \in NetInputs
    /\ nparent = NetZero
    /\ nop = "none"
    /\ narg = NoArg
    /\ nret = NoRet
    /\ nderived = 0
    /\ HMIdle
    /\ RangeIdle
    /\ PureIdle

\* The methods have value receivers and change nothing, so one call is made
\* on each Net the caller holds.
CanCallNet == nop = "none"

NetCalled(name, a, r) ==
    /\ nop' = name
    /\ narg' = a
    /\ nret' = r
    /\ UNCHANGED <<nblk, nparent, nderived>>
    /\ UNCHANGED <<hmVars, rangeVars, pureVars>>

CallCount ==
    /\ CanCallNet
    /\ HostBits(nblk) <= MaxHostBits
    /\ NetCalled("Count", NoArg, [NoRet EXCEPT !.count = Count(nblk)])

CallEnumerate ==
    /\ CanCallNet
    /\ HostBits(nblk) <= MaxHostBits
    /\ \E size \in 0..(Count(nblk) + 1), offset \in 0..(Count(nblk) + 1) :
         \E r \in {Enumerate(nblk, size, offset)} :
            NetCalled("Enumerate",
                      [NoArg EXCEPT !.size = size, !.offset = offset],
                      [NoRet EXCEPT !.list = r.list, !.panic = r.panic])

CallSubnet ==
    /\ CanCallNet
    /\ \E m \in NetMasklens(nblk) :
       \E r \in {Subnet(nblk, m)} :
          NetCalled("Subnet", [NoArg EXCEPT !.masklen = m],
                    [NoRet EXCEPT !.nets = r.nets, !.err = r.err])

CallSupernet ==
    /\ CanCallNet
    /\ \E m \in NetMasklens(nblk) :
       \E r \in {Supernet(nblk, m)} :
          NetCalled("Supernet", [NoArg EXCEPT !.masklen = m],
                    [NoRet EXCEPT !.net = r.net, !.err = r.err])

CallNetNextIP ==
    /\ CanCallNet
    /\ \E ip \in StepInputs(nblk) :
       \E r \in {Net_NextIP(nblk, ip)} :
          NetCalled("NextIP", [NoArg EXCEPT !.ip = ip],
                    [NoRet EXCEPT !.ip = r.ip, !.err = r.err])

CallNetPreviousIP ==
    /\ CanCallNet
    /\ \E ip \in StepInputs(nblk) :
       \E r \in {Net_PreviousIP(nblk, ip)} :
          NetCalled("PreviousIP", [NoArg EXCEPT !.ip = ip],
                    [NoRet EXCEPT !.ip = r.ip, !.err = r.err])

\* the caller goes on with the first block Subnet returned
TakeFirst ==
    /\ nop = "Subnet"
    /\ nret.err = "nil"
    /\ nparent = NetZero
    /\ nblk' = nret.nets[1]
    /\ nparent' = nblk
    /\ nop' = "none"
    /\ narg' = narg
    /\ nret' = NoRet
    /\ UNCHANGED nderived
    /\ UNCHANGED <<hmVars, rangeVars, pureVars>>

NextNetCalls ==
    \/ CallCount
    \/ CallEnumerate
    \/ CallSubnet
    \/ CallSupernet
    \/ CallNetNextIP
    \/ CallNetPreviousIP
    \/ TakeFirst

SpecNet == InitNet /\ [][NextNetCalls]_vars

\* ------------------------------------------------------------------------
\* Blocks derived from blocks: a Net made by NewNet, then any sequence of
\* Subnet, Supernet, NextNet and PreviousNet, each applied to the block the
\* previous call produced.
\* ------------------------------------------------------------------------
CanDerive == nop \in {"none", "Subnet", "Supernet", "NextNet", "PreviousNet"}
                /\ nderived < MaxDerive

Derived(name, m, blk) ==
    /\ nblk' = blk
    /\ nparent' = nblk
    /\ nop' = name
    /\ narg' = [NoArg EXCEPT !.masklen = m]
    /\ nret' = NoRet
    /\ nderived' = nderived + 1
    /\ UNCHANGED <<hmVars, rangeVars, pureVars>>

DeriveSubnet ==
    /\ CanDerive
    /\ \E m \in NetMasklens(nblk) : \E r \in {Subnet(nblk, m)} :
          /\ r.err = "nil"
          /\ \E k \in 1..Len(r.nets) : Derived("Subnet", m, r.nets[k])

DeriveSupernet ==
    /\ CanDerive
    /\ \E m \in NetMasklens(nblk) : \E r \in {Supernet(nblk, m)} :
          /\ r.err = "nil"
          \* the prefix asked for is a valid one: a mask length of 0 asks
          \* for one bit less than the block has, and a /0 has none to give
          /\ (m = 0) => (MaskSize(nblk.Mask) >= 1)
          /\ Derived("Supernet", m, r.net)

DeriveNextNet ==
    /\ CanDerive
    /\ \E m \in NetMasklens(nblk) : Derived("NextNet", m, Net_NextNet(nblk, m))

DerivePreviousNet ==
    /\ CanDerive
    /\ \E m \in NetMasklens(nblk) :
          Derived("PreviousNet", m, Net_PreviousNet(nblk, m))

NextDerive ==
    \/ DeriveSubnet
    \/ DeriveSupernet
    \/ DeriveNextNet
    \/ DerivePreviousNet

SpecDerive == InitNet /\ [][NextDerive]_vars

\* ------------------------------------------------------------------------
\* Functions called on their own: one call on arguments drawn from the
\* inputs below
\* ------------------------------------------------------------------------

\* the bits of a HostMask (bits := 128 in Size)
HostMaskBits == 128

MaskLens == 0..HostMaskBits

InitPure ==
    /\ pfn = "none"
    /\ pin = NoPIn
    /\ pout = NoPOut
    /\ HMIdle
    /\ RangeIdle
    /\ NetIdle

CanCallPure == pfn = "none"

PureCalled(name, a, r) ==
    /\ pfn' = name
    /\ pin' = a
    /\ pout' = r
    /\ UNCHANGED <<hmVars, rangeVars, netVars>>

CallNewHostMask ==
    /\ CanCallPure
    /\ \E n \in MaskLens :
       \E m \in {NewHostMask(n)} :
          PureCalled("NewHostMask", [NoPIn EXCEPT !.n = n],
                     [NoPOut EXCEPT !.mask = m])

\* Size() of the mask NewHostMask(n) made
CallSize ==
    /\ CanCallPure
    /\ \E n \in MaskLens :
       \E m \in {NewHostMask(n)} :
          PureCalled("Size", [NoPIn EXCEPT !.n = n, !.mask = m],
                     [NoPOut EXCEPT !.n = Size(m)])

\* BoundaryByte() of the mask NewHostMask(n) made
CallBoundaryByte ==
    /\ CanCallPure
    /\ \E n \in MaskLens :
       \E m \in {NewHostMask(n)} :
       \E r \in {BoundaryByte(m)} :
          PureCalled("BoundaryByte", [NoPIn EXCEPT !.n = n, !.mask = m],
                     [NoPOut EXCEPT !.bb = r.bb, !.bbpos = r.bbpos])

\* addresses passed to NextIP and PreviousIP: IPv4 in 4 and in 16 bytes and
\* IPv6, at and near both ends of the address space and across byte carries
StepAddresses ==
    {Bump(x, k) : x \in Anchors, k \in Offsets}
    \cup {To16(Bump(x, k)) : x \in {V4Zero, V4Mid, V4Top}, k \in Offsets}
    \cup {Zeros(IPv4len), Filled(IPv4len, 255), Zeros(IPv6len),
          Filled(IPv6len, 255)}

CallNextIP ==
    /\ CanCallPure
    /\ \E ip \in StepAddresses :
          PureCalled("NextIP", [NoPIn EXCEPT !.ip = ip],
                     [NoPOut EXCEPT !.ip = NextIP(ip)])

CallPreviousIP ==
    /\ CanCallPure
    /\ \E ip \in StepAddresses :
          PureCalled("PreviousIP", [NoPIn EXCEPT !.ip = ip],
                     [NoPOut EXCEPT !.ip = PreviousIP(ip)])

\* boundary bytes: the nine a hostmask can have, and the four more of
\* boundaryByteDeltaTests
BoundaryBytes == {0, 8, 16, 32, 64, 128, 192, 224, 240, 248, 252, 254, 255}

\* values of the unmasked bits of a boundary byte bb
BoundaryValues(bb) == {v \in {0, 1, 9, (256 - bb) \div 2, 255 - bb} : v < 256 - bb}

\* counts around every multiple of the byte's range, up to MaxTurns of them
DeltaCounts(bb, bv) ==
    {k * (256 - bb) + d : k \in 0..MaxTurns, d \in {0, 1, bv, bv + 1, 255 - bb}}
    \cup {1024}

CallDecrementBoundaryByte ==
    /\ CanCallPure
    /\ \E bb \in BoundaryBytes : \E bv \in BoundaryValues(bb) :
          \E c \in DeltaCounts(bb, bv) :
              \E r \in {decrementBoundaryByte(bb, bv, U128From64(c))} :
                  PureCalled("decrementBoundaryByte",
                             [NoPIn EXCEPT !.bb = bb, !.bv = bv, !.n = c,
                                           !.count = U128From64(c)],
                             [NoPOut EXCEPT !.bv = r.b, !.borrow = r.count,
                                            !.n = IF r.panic THEN 1 ELSE 0])

NextPure ==
    \/ CallNewHostMask
    \/ CallSize
    \/ CallBoundaryByte
    \/ CallNextIP
    \/ CallPreviousIP
    \/ CallDecrementBoundaryByte

SpecPure == InitPure /\ [][NextPure]_vars




\* ------------------------------------------------------------------------
\* What the claims speak of: the hostmask of n bits as a set of bit
\* positions, and the unmasked region of an address read as one number.
\* Numbers are big-endian digit sequences of RefWidth bytes.
\* ------------------------------------------------------------------------

\* wide enough for 2^128 + 2^128
RefWidth == 18

\* Go index of the boundary byte of a hostmask of n bits (15 for none)
RefPos(n) == IF n = 0 THEN 15 ELSE 15 - ((n - 1) \div 8)

\* the mask's byte at RefPos(n)
RefMaskByte(n) ==
    IF n = 0 THEN 0 ELSE IF n % 8 = 0 THEN 255 ELSE 256 - Pow2(8 - (n % 8))

\* number of values of the boundary digit
RefBase(n) == 256 - RefMaskByte(n)

\* the n trailing bits of the address, byte by byte
RefMask(n) ==
    [i \in 1..IPv6len |->
        IF i - 1 > RefPos(n) THEN 255
        ELSE IF i - 1 = RefPos(n) THEN RefMaskByte(n) ELSE 0]

\* x is a 16-byte address with no bit set inside the hostmask
ValidAddr(x, n) ==
    /\ Len(x) = IPv6len
    /\ \A i \in 1..IPv6len : ByteAnd(x[i], RefMask(n)[i]) = 0

Widen(d) == Zeros(RefWidth - Len(d)) \o d

RECURSIVE MulCarry(_, _, _)
MulCarry(d, m, i) ==
    IF i > Len(d) THEN 0 ELSE (d[i] * m + MulCarry(d, m, i + 1)) \div ByteMod

\* d * m for a small m
MulSmall(d, m) ==
    [i \in 1..Len(d) |-> (d[i] * m + MulCarry(d, m, i + 1)) % ByteMod]

\* V: the bytes above the boundary byte, then the boundary byte as a last
\* digit of base RefBase(n)
RegionValue(x, n) ==
    AddDigits(MulSmall(Widen(Slice(x, 0, RefPos(n))), RefBase(n)),
              Widen(<<At(x, RefPos(n))>>))

\* the largest V: every unmasked bit set
RegionMax(n) ==
    AddDigits(MulSmall(Widen(Filled(RefPos(n), 255)), RefBase(n)),
              Widen(<<RefBase(n) - 1>>))

RegionPlus(x, n, c) == AddDigits(RegionValue(x, n), Widen(c))

Fits(x, n, c) == BytesCompare(RegionPlus(x, n, c), RegionMax(n)) <= 0

ZeroRegion(x, n) == RegionValue(x, n) = Zeros(RefWidth)

FullRegion(x, n) == RegionValue(x, n) = RegionMax(n)

One == U128From64(1)

\* ------------------------------------------------------------------------
\* Claims
\* ------------------------------------------------------------------------

\* C1: IncrementIP6WithinHostmask on a hostmask of 1..120 bits and an
\* address with no bit inside it: whenever V + c fits the unmasked region,
\* the call succeeds and returns the address whose region encodes V + c and
\* whose masked bits are zero.
C1_IncrementEquivalence ==
    (op = "Increment" /\ hmlen \in 1..120 /\ ValidAddr(arg, hmlen)
       /\ Fits(arg, hmlen, cnt))
    => /\ err = "nil"
       /\ ValidAddr(res, hmlen)
       /\ RegionValue(res, hmlen) = RegionPlus(arg, hmlen, cnt)

\* an increment under a partial boundary byte that carried into the bytes
\* above it
C1_Witness ==
    /\ op = "Increment" /\ hmlen \in 1..120 /\ hmlen % 8 # 0
    /\ ValidAddr(arg, hmlen) /\ Fits(arg, hmlen, cnt)
    /\ err = "nil"
    /\ Slice(res, 0, RefPos(hmlen)) # Slice(arg, 0, RefPos(hmlen))
    /\ At(res, RefPos(hmlen)) # At(arg, RefPos(hmlen))

\* C2: IncrementIP6WithinHostmask on a hostmask of 1..120 bits and a valid
\* address: when V + c exceeds the largest value of the unmasked region the
\* call returns ErrAddressOutOfRange and no address.
C2_OverflowDetected ==
    (op = "Increment" /\ hmlen \in 1..120 /\ ValidAddr(arg, hmlen)
       /\ ~Fits(arg, hmlen, cnt))
    => (err = "ErrAddressOutOfRange" /\ res = <<>>)

\* C3: DecrementIP6WithinHostmask on a hostmask of 1..120 bits and a valid
\* address: c <= V gives the address encoding V - c with masked bits zero,
\* c > V gives ErrAddressOutOfRange and no address.
C3_DecrementEquivalence ==
    (op = "Decrement" /\ hmlen \in 1..120 /\ ValidAddr(arg, hmlen))
    => IF BytesCompare(Widen(cnt), RegionValue(arg, hmlen)) <= 0
       THEN /\ err = "nil"
            /\ ValidAddr(res, hmlen)
            /\ AddDigits(RegionValue(res, hmlen), Widen(cnt))
                 = RegionValue(arg, hmlen)
       ELSE err = "ErrAddressOutOfRange" /\ res = <<>>

\* a decrement under a partial boundary byte that borrowed from the bytes
\* above it
C3_Witness ==
    /\ op = "Decrement" /\ hmlen \in 1..120 /\ hmlen % 8 # 0
    /\ ValidAddr(arg, hmlen)
    /\ err = "nil"
    /\ Slice(res, 0, RefPos(hmlen)) # Slice(arg, 0, RefPos(hmlen))
    /\ At(res, RefPos(hmlen)) > At(arg, RefPos(hmlen))

\* the error branch of C3: more is subtracted than the region holds
C3_WitnessUnderflow ==
    /\ op = "Decrement" /\ hmlen \in 1..120 /\ ValidAddr(arg, hmlen)
    /\ ~ZeroRegion(arg, hmlen)
    /\ err = "ErrAddressOutOfRange"

\* C4: for every hostmask and every valid address x that is not the
\* highest valid address, PreviousIP6WithinHostmask of
\* NextIP6WithinHostmask(x) succeeds and equals x.
C4_RoundTrip ==
    (op = "Previous" /\ prevOp = "Next" /\ ValidAddr(prevArg, hmlen))
    => (err = "nil" /\ res = prevArg)

\* C5: PreviousIP6WithinHostmask on a valid address returns the nearest
\* lower valid address (a borrow through the boundary byte leaves it at
\* 0xFF - maskByte, so no bit inside the hostmask is set), and fails with
\* ErrAddressOutOfRange only when every unmasked bit of the input is zero.
C5_PreviousNearestLower ==
    (op = "Previous" /\ ValidAddr(arg, hmlen))
    => IF ZeroRegion(arg, hmlen)
       THEN err = "ErrAddressOutOfRange" /\ res = <<>>
       ELSE /\ err = "nil"
            /\ ValidAddr(res, hmlen)
            /\ AddDigits(RegionValue(res, hmlen), Widen(One))
                 = RegionValue(arg, hmlen)

\* C6: NextIP6WithinHostmask on a valid address returns the nearest higher
\* valid address, and ErrAddressOutOfRange exactly when every unmasked bit
\* of the input is one.
C6_NextNearestHigher ==
    (op = "Next" /\ ValidAddr(arg, hmlen))
    => IF FullRegion(arg, hmlen)
       THEN err = "ErrAddressOutOfRange" /\ res = <<>>
       ELSE /\ err = "nil"
            /\ ValidAddr(res, hmlen)
            /\ RegionValue(res, hmlen) = RegionPlus(arg, hmlen, One)

\* a step that wrapped a partial boundary byte and carried two bytes up
C6_Witness ==
    /\ op = "Next" /\ hmlen % 8 # 0 /\ ValidAddr(arg, hmlen)
    /\ err = "nil"
    /\ At(arg, RefPos(hmlen)) = RefBase(hmlen) - 1
    /\ At(res, RefPos(hmlen)) = 0
    /\ At(res, RefPos(hmlen) - 2) # At(arg, RefPos(hmlen) - 2)

\* C7: after IncrementIP6WithinHostmask or DecrementIP6WithinHostmask
\* returns, the caller's buffer holds the bytes it held before the call.
\* (The claim also wants the result to be a separate buffer; the bytes
\* alone already differ.)
C7_NoInputMutation ==
    (op \in {"Increment", "Decrement"}) => buf = arg

\* ------------------------------------------------------------------------
\* Range fitting: what the claims mean by a block's first and last address
\* ------------------------------------------------------------------------

\* 4 for an address of 4 bytes or of the form ::ffff:a.b.c.d, else 6
RefFamily(x) ==
    IF Len(x) = IPv4len THEN 4
    ELSE IF /\ \A i \in 1..10 : x[i] = 0
            /\ x[11] = 255 /\ x[12] = 255 THEN 4
    ELSE 6

\* the address on 16 bytes, the order all comparisons use
RefWide(x) == IF Len(x) = IPv4len THEN Zeros(10) \o <<255, 255>> \o x ELSE x

\* 2^h - 1 on 16 bytes
HostOnes(h) ==
    [i \in 1..IPv6len |->
        LET below == 8 * (IPv6len - i)
        IN  IF h >= below + 8 THEN 255
            ELSE IF h <= below THEN 0
            ELSE Pow2(h - below) - 1]

BlockFirst(n) == RefWide(n.IP)

BlockLast(n) ==
    AddDigits(RefWide(n.IP), HostOnes(8 * Len(n.Mask) - MaskSize(n.Mask)))

RefSucc(x) == AddDigits(x, BytesOfNat(1, Len(x)))

RefLe(x, y) == BytesCompare(x, y) <= 0

\* the loop has called NewNetBetween(fitA, rfB) on a pair the claims cover
FitCalled ==
    /\ fitA # <<>>
    /\ RefFamily(fitA) = RefFamily(rfB)
    /\ RefLe(RefWide(fitA), RefWide(rfB))

C9_ExactCover ==
    (/\ rpc = "done"
     /\ RefFamily(rfA) = RefFamily(rfB)
     /\ RefLe(RefWide(rfA), RefWide(rfB)))
    => /\ rerr = "nil"
       /\ Len(nets) >= 1
       /\ BlockFirst(nets[1]) = RefWide(rfA)
       /\ \A i \in 1..(Len(nets) - 1) :
             BlockFirst(nets[i + 1]) = RefSucc(BlockLast(nets[i]))
       /\ BlockLast(nets[Len(nets)]) = RefWide(rfB)

\* the widest prefix the family of an address allows
RefBits(x) == IF RefFamily(x) = 4 THEN 32 ELSE 128

\* what C10 asks of every state of a call
RangeBounded ==
    /\ rpc # "hung"
    /\ fit.err # "unbounded"
    /\ (fitA # <<>> /\ fit.err = "nil")
         => MaskSize(fit.net.Mask) <= RefBits(fitA)
    /\ \A i \in 1..(Len(nets) - 1) :
          BytesCompare(BlockFirst(nets[i]), BlockFirst(nets[i + 1])) < 0

\* C10: for every pair of inputs AllNetsBetween returns; every
\* NewNetBetween search inside it stops at a prefix no longer than the
\* address width, and every block appended after the first starts strictly
\* above the block appended before it.
C10_Termination == [](RangeBounded) /\ <>(rpc = "done")

\* a call that returned after several iterations
C10_Witness == rpc = "done" /\ rerr = "nil" /\ Len(nets) >= 3


\* ------------------------------------------------------------------------
\* Range fitting: errors and the size of the fit
\* ------------------------------------------------------------------------

\* the loop has called NewNetBetween(fitA, rfB) on a pair it must refuse
FitRefused ==
    \/ RefFamily(fitA) # RefFamily(rfB)
    \/ BytesCompare(RefWide(fitA), RefWide(rfB)) > 0

RefAligned(x, m) ==
    \A i \in 1..IPv6len :
        ByteAnd(RefWide(x)[i], HostOnes(RefBits(x) - m)[i]) = 0

\* the last address of that block
RefBlockLast(x, m) == AddDigits(RefWide(x), HostOnes(RefBits(x) - m))

\* the block x/m starts at x and ends at or below y
RefFitsBetween(x, y, m) ==
    /\ RefAligned(x, m)
    /\ AddCarry(RefWide(x), HostOnes(RefBits(x) - m), 1) = 0
    /\ RefLe(RefBlockLast(x, m), RefWide(y))

\* C12: for a <= b of one family NewNetBetween(a, b) returns, among the
\* CIDR blocks that start at a and end at or below b, the one of shortest
\* prefix; when a block from a to b exists it is returned with exact = true.
C12_LargestFit ==
    FitCalled
    => /\ fit.err = "nil"
       /\ BlockFirst(fit.net) = RefWide(fitA)
       /\ \A m \in 0..RefBits(fitA) :
             RefFitsBetween(fitA, rfB, m) => MaskSize(fit.net.Mask) <= m
       /\ \A m \in 0..RefBits(fitA) :
             (RefFitsBetween(fitA, rfB, m)
                /\ RefBlockLast(fitA, m) = RefWide(rfB))
             => (fit.exact /\ MaskSize(fit.net.Mask) = m)



\* ------------------------------------------------------------------------
\* Claims about the struct Net.  What they speak of: a block's number of
\* host bits and its addresses as numbers.
\* ------------------------------------------------------------------------

\* C13: Count() of a block with exactly one host bit (IPv4 /31, IPv6 /127)
\* is 2, and Count() of a block with no host bit (IPv4 /32, IPv6 /128) is 1.
C13_PointToPointCount ==
    (nop = "Count")
    => /\ (HostBits(nblk) = 1 => nret.count = 2)
       /\ (HostBits(nblk) = 0 => nret.count = 1)

\* C14: for every constructible block, the /31, /32, /127 and /128 blocks
\* among them, Enumerate called with size 0 and offset 0 returns exactly
\* Count() addresses.
C14_EnumerateAllIsCount ==
    (nop = "Enumerate" /\ narg.size = 0 /\ narg.offset = 0)
    => /\ ~nret.panic
       /\ Len(nret.list) = Count(nblk)

\* the number of addresses C15 asks of Enumerate(size, offset)
RefEnumLen(n, size, offset) ==
    LET left == Count(n) - offset
    IN  IF offset > Count(n) THEN 0
        ELSE IF size = 0 \/ size > left THEN left
        ELSE size

\* C15: Enumerate never fails or aborts; when offset <= Count() the list
\* holds exactly min(size, Count() - offset) consecutive addresses
\* (Count() - offset of them when size is 0), the first being
\* FirstAddress() + offset; when offset > Count() the list is empty.
C15_EnumerateBounds ==
    (nop = "Enumerate")
    => /\ ~nret.panic
       /\ Len(nret.list) = RefEnumLen(nblk, narg.size, narg.offset)
       /\ \A i \in 1..Len(nret.list) :
             RefWide(nret.list[i])
               = AddDigits(RefWide(FirstAddress(nblk)),
                           BytesOfNat(narg.offset + i - 1, IPv6len))

\* the block n read as C16 reads it: prefix and width
RefPrefix(n) == MaskSize(n.Mask)

RefWidthOf(n) == MaskBits(n.Mask)

\* C16: for a block of prefix p and a requested prefix q with
\* p <= q <= address width, Subnet(q) returns exactly 2^(q-p) blocks of
\* prefix q in ascending order, the first starting at the parent's base
\* address, each next one starting right after the last address of the one
\* before, and the last one ending at the parent's last address.
C16_SubnetPartition ==
    (nop = "Subnet" /\ RefPrefix(nblk) <= narg.masklen
                    /\ narg.masklen <= RefWidthOf(nblk))
    => /\ nret.err = "nil"
       /\ Len(nret.nets) = Pow2(narg.masklen - RefPrefix(nblk))
       /\ \A i \in 1..Len(nret.nets) :
             /\ Len(nret.nets[i].IP) = Len(nblk.IP)
             /\ RefPrefix(nret.nets[i]) = narg.masklen
       /\ BlockFirst(nret.nets[1]) = BlockFirst(nblk)
       /\ \A i \in 1..(Len(nret.nets) - 1) :
             BlockFirst(nret.nets[i + 1]) = RefSucc(BlockLast(nret.nets[i]))
       /\ BlockLast(nret.nets[Len(nret.nets)]) = BlockLast(nblk)

\* the caller holds the first block of a Subnet of nparent and has called
\* Supernet on it with nparent's prefix
SupernetOfFirst ==
    /\ nop = "Supernet"
    /\ nparent # NetZero
    /\ narg.masklen = RefPrefix(nparent)

\* C17: for a block B of prefix p and a valid subnet prefix n, Supernet
\* called with p on the first block of Subnet(B, n) returns a block equal to
\* B: the same base address and the same prefix.
C17_SupernetOfFirstSubnet ==
    SupernetOfFirst
    => /\ nret.err = "nil"
       /\ nret.net.IP = nparent.IP
       /\ nret.net.Mask = nparent.Mask

RefInBlock(n, x) ==
    /\ RefFamily(x) = n.version
    /\ RefLe(BlockFirst(n), RefWide(x))
    /\ RefLe(RefWide(x), BlockLast(n))

\* the address one step after x is an address of n
RefNextInBlock(n, x) ==
    /\ AddCarry(RefWide(x), One, 1) = 0
    /\ RefInBlock(n, RefSucc(RefWide(x)))

\* the address one step before x is an address of n
RefPrevInBlock(n, x) ==
    /\ RefWide(x) # Zeros(IPv6len)
    /\ RefInBlock(n, SubDigits(RefWide(x), One))

\* C19: a block's NextIP(ip) and PreviousIP(ip) return ErrAddressOutOfRange
\* exactly when ip is not contained in the block, and
\* ErrAddressAtEndOfRange exactly when ip is contained in the block but the
\* address one step after (before) it is not; no address is returned with
\* either error.
C19_EdgeErrors ==
    (nop \in {"NextIP", "PreviousIP"})
    => LET inside == RefInBlock(nblk, narg.ip)
           stays  == IF nop = "NextIP" THEN RefNextInBlock(nblk, narg.ip)
                     ELSE RefPrevInBlock(nblk, narg.ip)
       IN  /\ (nret.err = "ErrAddressOutOfRange") <=> ~inside
           /\ (nret.err = "ErrAddressAtEndOfRange") <=> (inside /\ ~stays)
           /\ (nret.err \in {"ErrAddressOutOfRange", "ErrAddressAtEndOfRange"})
              => nret.ip = <<>>

\* C20: NextIP6WithinHostmask and PreviousIP6WithinHostmask return an empty
\* address and ErrAddressOutOfRange whenever the input address has a bit set
\* at a position where the hostmask bit is one, in a fully masked byte or
\* among the masked bits of the boundary byte.
C20_MaskedBitsRefused ==
    (op \in {"Next", "Previous"} /\ Len(arg) = IPv6len
                                 /\ ~ValidAddr(arg, hmlen))
    => (res = <<>> /\ err = "ErrAddressOutOfRange")

\* ------------------------------------------------------------------------
\* Claims about functions called on their own
\* ------------------------------------------------------------------------

\* the mask C21 describes: the last n \div 8 bytes 0xFF, the byte before
\* them with its n % 8 most significant bits set, zero before that
RefHostMask(n) ==
    [i \in 1..IPv6len |->
        IF i > IPv6len - (n \div 8) THEN 255
        ELSE IF i = IPv6len - (n \div 8) THEN 256 - Pow2(8 - (n % 8))
        ELSE 0]

\* C21: for n from 0 to 128, NewHostMask(n) is a 16-byte mask whose last
\* n div 8 bytes are 0xFF, whose next byte toward the front has exactly its
\* n mod 8 most significant bits set and whose other bytes are zero, and
\* Size() of that mask returns n.
C21_HostMaskShapeAndSize ==
    /\ (pfn = "NewHostMask")
       => (Len(pout.mask) = IPv6len /\ pout.mask = RefHostMask(pin.n))
    /\ (pfn = "Size") => pout.n = pin.n

\* Size() gave back the length of a mask that ends inside a byte
C21_Witness ==
    /\ pfn = "Size"
    /\ pin.n = 58
    /\ pin.mask = Zeros(8) \o <<192>> \o Filled(7, 255)
    /\ pout.n = 58

\* C22: for n from 1 to 128, BoundaryByte() of NewHostMask(n) returns the
\* most significant mask byte that holds a hostmask bit, with its position
\* 15 - (n-1) div 8; for n = 0 it returns (0x00, -1).
C22_BoundaryByte ==
    (pfn = "BoundaryByte")
    => IF pin.n = 0 THEN pout.bb = 0 /\ pout.bbpos = -1
       ELSE /\ pout.bbpos = 15 - ((pin.n - 1) \div 8)
            /\ pout.bb = At(pin.mask, pout.bbpos)
            /\ pout.bb # 0
            /\ \A i \in 0..(pout.bbpos - 1) : At(pin.mask, i) = 0

\* the example of the function's comment: 58 gives 0xc0 at 8
C22_Witness ==
    /\ pfn = "BoundaryByte"
    /\ pin.n = 58
    /\ pout.bb = 192
    /\ pout.bbpos = 8

\* C29 as stated: BoundaryByte() reports index -1 whenever the hostmask
\* length is zero or a multiple of 8.
C29_AlignedReportsNoIndex ==
    (pfn = "BoundaryByte" /\ pin.n % 8 = 0) => pout.bbpos = -1

\* C29, amended: BoundaryByte() reports index -1 exactly when the hostmask
\* length is zero; a non-zero length that is a multiple of 8 reports the
\* byte 0xFF at index 16 - n div 8.
C29_NoIndexOnlyWhenUnset ==
    (pfn = "BoundaryByte")
    => /\ (pout.bbpos = -1) <=> (pin.n = 0)
       /\ (pin.n # 0 /\ pin.n % 8 = 0)
          => (pout.bb = 255 /\ pout.bbpos = 16 - (pin.n \div 8))

\* a mask of four whole bytes reports its first masked byte
C29_Witness ==
    /\ pfn = "BoundaryByte"
    /\ pin.n = 32
    /\ pout.bb = 255
    /\ pout.bbpos = 12

\* C23: when the hostmask's boundary byte is the most significant byte of
\* the address (hostmask length 121..128), IncrementIP6WithinHostmask and
\* DecrementIP6WithinHostmask return ErrBadMaskLength and no address, for
\* every input address and every count.
C23_BoundaryAtTopRefused ==
    (op \in {"Increment", "Decrement"} /\ hmlen >= 121)
    => (err = "ErrBadMaskLength" /\ res = <<>>)

\* a decrement by a non-zero count under a hostmask of 121 bits was refused
C23_Witness ==
    /\ op = "Decrement"
    /\ hmlen = 121
    /\ ~U128IsZero(cnt)
    /\ err = "ErrBadMaskLength"
    /\ res = <<>>

\* x is the last address of its family (all ones)
RefIsLast(x) ==
    IF RefFamily(x) = 4 THEN RefWide(x) = RefWide(Filled(IPv4len, 255))
    ELSE x = Filled(IPv6len, 255)

\* x is the first address of its family (all zeroes)
RefIsFirst(x) ==
    IF RefFamily(x) = 4 THEN RefWide(x) = RefWide(Zeros(IPv4len))
    ELSE x = Zeros(IPv6len)

\* C24: NextIP returns the input address plus one and PreviousIP the input
\* address minus one, for IPv4 addresses in 4-byte or 16-byte form and for
\* IPv6 addresses; at the all-ones address NextIP returns the address
\* unchanged and at the all-zeroes address PreviousIP returns it unchanged.
C24_StepByOne ==
    /\ (pfn = "NextIP")
       => IF RefIsLast(pin.ip) THEN RefWide(pout.ip) = RefWide(pin.ip)
          ELSE RefWide(pout.ip) = RefSucc(RefWide(pin.ip))
    /\ (pfn = "PreviousIP")
       => IF RefIsFirst(pin.ip) THEN RefWide(pout.ip) = RefWide(pin.ip)
          ELSE RefWide(pout.ip) = SubDigits(RefWide(pin.ip), One)

\* ------------------------------------------------------------------------
\* C25: every block made by NewNet, and every block reached from it by a
\* sequence of Subnet, Supernet, NextNet and PreviousNet calls that
\* succeeded, has a base address that its own netmask leaves unchanged
\* (base AND netmask = base, byte by byte).
\* ------------------------------------------------------------------------
\* A block whose base is nil (NewNet given a prefix its family does not
\* have) has no byte to clear: IP.Mask of nil is nil.
RefBaseMasked(n) ==
    /\ (Len(n.IP) > 0) => (Len(n.IP) = Len(n.Mask))
    /\ \A i \in 1..Len(n.IP) :
          \A k \in 0..7 :
              ((n.Mask[i] \div Pow2(k)) % 2 = 0) => ((n.IP[i] \div Pow2(k)) % 2 = 0)

RefMax == 256 - pin.bb

C26_DecrementFormula ==
    (pfn = "decrementBoundaryByte") =>
        IF pin.n = 0
        THEN pout.bv = pin.bv /\ U128IsZero(pout.borrow)
        ELSE IF pin.n <= pin.bv
        THEN pout.bv = pin.bv - pin.n /\ U128IsZero(pout.borrow)
        ELSE pout.bv = RefMax - ((pin.n - pin.bv) % RefMax)

\* C26 (amended): as above, but past v the new value is (v - c) mod max,
\* which is max - ((c - v) mod max) unless c - v is a multiple of max and 0
\* when it is, and the borrow is the number of times the byte was turned
\* round, (c - v) / max rounded up; the call does not panic.
RefTurns == (pin.n - pin.bv + RefMax - 1) \div RefMax

C26_DecrementModular ==
    (pfn = "decrementBoundaryByte") =>
        /\ pout.n = 0
        /\ IF pin.n <= pin.bv
           THEN pout.bv = pin.bv - pin.n /\ U128IsZero(pout.borrow)
           ELSE /\ pout.bv = (RefMax - ((pin.n - pin.bv) % RefMax)) % RefMax
                /\ pout.borrow = U128From64(RefTurns)

\* 0x40 with 9 in its unmasked bits, less 1024: 0x89 and six borrows, the
\* row of boundaryByteDeltaTests
C26_Witness ==
    /\ pfn = "decrementBoundaryByte"
    /\ pin.bb = 64 /\ pin.bv = 9 /\ pin.n = 1024
    /\ pout.bv = 137
    /\ pout.borrow = U128From64(6)

\* ------------------------------------------------------------------------
\* C27: Count() of a block with two or more host bits is 2^hostBits, where
\* hostBits is the address width (32 or 128) less the netmask length.  (The
\* struct Net has no hostmask to take off for IPv6.)
\* ------------------------------------------------------------------------
C27_CountIsPowerOfTwo ==
    (nop = "Count" /\ HostBits(nblk) >= 2)
    => nret.count = Pow2(HostBits(nblk))

\* ------------------------------------------------------------------------
\* Range fitting: the fewest blocks a range can be cut into
\* ------------------------------------------------------------------------

\* the shortest prefix of a CIDR block that starts at x and ends at or
\* below y; the block x/RefBits(x) always does
RefShortestFit(x, y) ==
    CHOOSE m \in 0..RefBits(x) :
        /\ RefFitsBetween(x, y, m)
        /\ \A k \in 0..(m - 1) : ~RefFitsBetween(x, y, k)

\* The number of blocks in the smallest exact cover of [x, y].  A block of
\* a cover that holds x starts at x, since no block may reach below x; taking
\* the largest such block leaves the shortest rest, so the smallest cover
\* is counted from the left, one largest block after the other.
RECURSIVE RefMinCover(_, _)
RefMinCover(x, y) ==
    CHOOSE c \in
        { IF last = RefWide(y) THEN 1
          ELSE 1 + RefMinCover(RefSucc(last), y)
          : last \in {RefBlockLast(x, RefShortestFit(x, y))} } : TRUE

\* C28: for a <= b of one family, the list AllNetsBetween(a, b) returns
\* has as few blocks as any list of CIDR blocks whose union is exactly
\* [a, b].
C28_MinimalCover ==
    (/\ rpc = "done"
     /\ rerr = "nil"
     /\ RefFamily(rfA) = RefFamily(rfB)
     /\ RefLe(RefWide(rfA), RefWide(rfB)))
    => Len(nets) = RefMinCover(rfA, rfB)

\* ------------------------------------------------------------------------
\* C30: a mask length of 0 is a single step.  Subnet(0) on a block of prefix
\* p smaller than the address width returns its two halves, of prefix p + 1,
\* the first starting where the block starts and the second ending where it
\* ends; Supernet(0) on a block of prefix p >= 1 returns the block of prefix
\* p - 1 that holds it.
\* ------------------------------------------------------------------------
RefSubnetHalves ==
    /\ nret.err = "nil"
    /\ Len(nret.nets) = 2
    /\ \A i \in 1..Len(nret.nets) : RefPrefix(nret.nets[i]) = RefPrefix(nblk) + 1
    /\ BlockFirst(nret.nets[1]) = BlockFirst(nblk)
    /\ BlockFirst(nret.nets[2]) = RefSucc(BlockLast(nret.nets[1]))
    /\ BlockLast(nret.nets[2]) = BlockLast(nblk)

RefSupernetStep ==
    /\ nret.err = "nil"
    /\ RefPrefix(nret.net) = RefPrefix(nblk) - 1
    /\ RefBaseMasked(nret.net)
    /\ RefLe(BlockFirst(nret.net), BlockFirst(nblk))
    /\ RefLe(BlockLast(nblk), BlockLast(nret.net))

C30_ZeroIsOneStep ==
    /\ (nop = "Subnet" /\ narg.masklen = 0
                       /\ RefPrefix(nblk) < RefWidthOf(nblk))
       => RefSubnetHalves
    /\ (nop = "Supernet" /\ narg.masklen = 0 /\ RefPrefix(nblk) >= 1)
       => RefSupernetStep

====
